---- MODULE Spec2Model ----
(***************************************************************************)
(* Verification model of fulcus/clustering-bandits:                        *)
(*   src/clustering_bandits/src/CLUB.py         (CLUB, Cluster)            *)
(*   src/clustering_bandits/src/agents.py       (all agent classes)        *)
(*   src/clustering_bandits/src/environment.py  (both environments)        *)
(*   src/clustering_bandits/src/core.py         (Core.simulation, epoch)   *)
(*                                                                         *)
(* Numbers.  Arms are integer vectors of dimension 2, design matrices are  *)
(* 2x2 integer matrices.  Rewards, b vectors, theta estimates and UCB      *)
(* scores are fixed-point numbers in thousandths (Scale); square roots are *)
(* integer square roots of the scaled value.  The logarithmic factors of   *)
(* the source are tabulated at the same scale.                             *)
(*                                                                         *)
(* Each object of the program is one variable holding a record whose       *)
(* fields carry the attribute names of the source.  There is one           *)
(* specification per program component; the variables of the other         *)
(* components stay at their idle value.                                    *)
(***************************************************************************)
EXTENDS Integers, Sequences, FiniteSets, TLC

VARIABLES
    club,       \* the CLUB object
    agent,      \* the LinUCBAgent object
    product,    \* the ProductLinUCBAgent object
    core,       \* a run of Core.simulation
    np_random,  \* the state of numpy's global random stream of the process
    pc,         \* the call the driver of the agent makes next
    fed,        \* the rewards passed to update so far, oldest first
    family,     \* an agent of any class of agents.py, built by a constructor call
    cenv,       \* the ContextualLinearEnvironment object
    ret         \* the value returned and the locals evaluated by the last call

vars == <<club, agent, product, core, np_random, pc, fed, family, cenv, ret>>

Idle == [idle |-> TRUE]

-----------------------------------------------------------------------------
(* Bounds of the model *)

\* cap on the total number of CLUB.update calls in a behaviour
MaxPulls == 3
\* cap on the number of rounds of a LinUCBAgent
MaxRounds == 3
\* the random_state values and the stream positions tried
MaxSeed == 2
\* the largest n_epochs of a call of Core.simulation
MaxEpochs == 2
\* n_rounds of the calls of Core.simulation
EpochRounds == 2

-----------------------------------------------------------------------------
(* Configuration *)

\* Python's None where an index is expected
None == 0 - 1
\* resolution of the fixed-point numbers
Scale == 10 * 10 * 10
ArmDim == 2
\* number of contexts (users) of the CLUB instance
NContexts == 3
\* horizon of the CLUB instance: the length of num_clusters
Horizon == 2
\* arms = np.eye(dim_arm)
Arms == << <<1, 0>>, <<0, 1>> >>
NArms == Len(Arms)
ArmIdx == 0 .. NArms - 1
Arm(a) == Arms[a + 1]
\* observed rewards offered to the agents, in thousandths
RewardSet == {0, 4000}

-----------------------------------------------------------------------------
(* Linear algebra on 2-vectors and 2x2 matrices *)

Eye == << <<1, 0>>, <<0, 1>> >>
ZeroVec == <<0, 0>>
ZeroMat == << <<0, 0>>, <<0, 0>> >>

VAdd(u, v) == <<u[1] + v[1], u[2] + v[2]>>
VSub(u, v) == <<u[1] - v[1], u[2] - v[2]>>
VScale(k, u) == <<k * u[1], k * u[2]>>
Dot(u, v) == u[1] * v[1] + u[2] * v[2]
Outer(u, v) == << <<u[1] * v[1], u[1] * v[2]>>, <<u[2] * v[1], u[2] * v[2]>> >>
MAdd(A, B) == << VAdd(A[1], B[1]), VAdd(A[2], B[2]) >>
MSub(A, B) == << VSub(A[1], B[1]), VSub(A[2], B[2]) >>
MScale(k, A) == << VScale(k, A[1]), VScale(k, A[2]) >>
MVec(A, u) == << Dot(A[1], u), Dot(A[2], u) >>
Det(A) == A[1][1] * A[2][2] - A[1][2] * A[2][1]
Adj(A) == << <<A[2][2], 0 - A[1][2]>>, <<0 - A[2][1], A[1][1]>> >>

\* np.linalg.inv(M) @ b : the solution of M x = b, rounded down to the scale of b
Solve(A, u) == LET w == MVec(Adj(A), u) IN <<w[1] \div Det(A), w[2] \div Det(A)>>

RECURSIVE ISqrtIter(_, _)
ISqrtIter(n, x) == LET y == (x + n \div x) \div 2
                   IN IF y >= x THEN x ELSE ISqrtIter(n, y)
\* floor of the square root
ISqrt(n) == IF n <= 0 THEN 0 ELSE ISqrtIter(n, n)

\* np.linalg.norm of a vector in thousandths, in thousandths
Norm(u) == ISqrt(Dot(u, u))

MinOf(S) == CHOOSE x \in S : \A y \in S : x <= y

RECURSIVE SumInt(_, _)
\* sum([f[k] for k in S]) of numbers
SumInt(S, f) == IF S = {} THEN 0
                ELSE LET k == MinOf(S) IN f[k] + SumInt(S \ {k}, f)

RECURSIVE SumVec(_, _)
\* sum([f[k] for k in S]) of vectors
SumVec(S, f) == IF S = {} THEN ZeroVec
                ELSE LET k == MinOf(S) IN VAdd(f[k], SumVec(S \ {k}, f))

RECURSIVE SumMat(_, _)
\* sum([f[k] for k in S]) of matrices
SumMat(S, f) == IF S = {} THEN ZeroMat
                ELSE LET k == MinOf(S) IN MAdd(f[k], SumMat(S \ {k}, f))

SetMax(S) == CHOOSE x \in S : \A y \in S : y <= x

-----------------------------------------------------------------------------
(* CLUB (src/clustering_bandits/src/CLUB.py) *)

Contexts == 0 .. NContexts - 1
\* an undirected edge is the set of its two endpoints
AllEdges == {e \in SUBSET Contexts : Cardinality(e) = 2}

\* _factT(T) = sqrt((1 + log(1 + T)) / (1 + T)) in thousandths, T = 0 .. 15
FactTable == <<1000, 920, 836, 772, 722, 682, 649, 620, 596, 575, 556, 539, 524,
               510, 497, 486>>
FactT(T) == FactTable[T + 1]
Alpha == 1

\* CLUB._if_split
IfSplit(theta, N1, N2) == Norm(theta) > Alpha * (FactT(N1) + FactT(N2)) 

\* Cluster.__init__ (M_inv is not kept: theta is solved from M and b)
Cluster(users, M, b, N) ==
    [users |-> users, M |-> M, b |-> b, N |-> N, theta |-> Solve(M, b)]

\* CLUB.__init__ with the graph g that nx.gnp_random_graph returned
CLUBNew(g) ==
    [M            |-> [i \in Contexts |-> Eye],
     b            |-> [i \in Contexts |-> ZeroVec],
     theta        |-> [i \in Contexts |-> ZeroVec],
     num_pulls    |-> [i \in Contexts |-> 0],
     G            |-> g,
     clusters     |-> (0 :> Cluster(Contexts, Eye, ZeroVec, 0)),
     cluster_inds |-> [i \in Contexts |-> 0],
     num_clusters |-> [r \in 0 .. Horizon - 1 |-> 0],
     t            |-> 0,
     a_hist       |-> << >>,
     last_pull_i  |-> None]

\* CLUB.update(i, a, y): the rank-one term goes to context i and to its cluster
ClubUpdate(c, i, a, y) ==
    LET Mi  == MAdd(c.M[i], Outer(a, a))
        bi  == VAdd(c.b[i], VScale(y, a))
        cid == c.cluster_inds[i]
        old == c.clusters[cid]
        Mc  == MAdd(old.M, Outer(a, a))
        bc  == VAdd(old.b, VScale(y, a))
    IN [c EXCEPT !.M[i] = Mi,
                 !.b[i] = bi,
                 !.num_pulls[i] = @ + 1,
                 !.theta[i] = Solve(Mi, bi),
                 !.clusters[cid] = [old EXCEPT !.M = Mc, !.b = bc, !.N = @ + 1,
                                               !.theta = Solve(Mc, bc)]]

\* the norm test alone, without the two num_pulls conditions
SplitEdge_NoPullGuard(c, e) ==
    LET i == MinOf(e)
        j == MinOf(e \ {i})
    IN IfSplit(VSub(c.theta[i], c.theta[j]), c.num_pulls[i], c.num_pulls[j])

\* the condition of line 101 for the edge e = {i, j} (it is symmetric in i, j)
SplitEdge(c, e) ==
    LET i == MinOf(e)
        j == MinOf(e \ {i})
    IN /\ c.num_pulls[i] # 0
       /\ c.num_pulls[j] # 0
       /\ IfSplit(VSub(c.theta[i], c.theta[j]), c.num_pulls[i], c.num_pulls[j])

\* the graph rebuilt from all pairs that fail the test in this round
DeleteEdges_AllPairs(c) ==
    {e \in AllEdges :
        LET i == MinOf(e)
            j == MinOf(e \ {i})
        IN ~(/\ c.num_pulls[i] # 0
             /\ c.num_pulls[j] # 0
             /\ IfSplit(VSub(c.theta[i], c.theta[j]), c.num_pulls[i], c.num_pulls[j]))}

\* the loop "delete edges": the test reads no edge, so the order of the
\* loop does not matter and the edges left are those that fail the test
DeleteEdges(c) == {e \in c.G : ~SplitEdge(c, e)}

RECURSIVE Reach(_, _)
Reach(g, S) ==
    LET S2 == S \cup {k \in Contexts : \E s \in S : {s, k} \in g}
    IN IF S2 = S THEN S ELSE Reach(g, S2)
\* nx.node_connected_component(G, i)
Component(g, i) == Reach(g, {i})

\* the fragment's M summed without taking the regularizer out of each term
NewCluster_KeepsRegularizers(c, C) ==
    Cluster(C, SumMat(C, c.M), SumVec(C, c.b), SumInt(C, c.num_pulls))

\* Cluster(list(C), M=sum(M[k] - I) + I, b=sum(b[k]), N=sum(num_pulls[k]))
NewCluster(c, C) ==
    Cluster(C,
            MAdd(SumMat(C, [k \in C |-> MSub(c.M[k], Eye)]), Eye),
            SumVec(C, c.b),
            SumInt(C, c.num_pulls))

\* cluster_i taken as max(self.clusters), the id of a live cluster
FreshClusterId_Reuse(cl) == SetMax(DOMAIN cl)

\* cluster_i = max(self.clusters) + 1
FreshClusterId(cl) == SetMax(DOMAIN cl) + 1

RECURSIVE RemainLoop(_, _, _, _, _)
\* the while loop over remain_users; j = np.random.choice(list(remain_users))
\* is any element of remain_users.  The result is the set of possible
\* outcomes [cl, inds].
RemainLoop(c, cl, inds, remain, cid) ==
    IF remain = {} THEN {[cl |-> cl, inds |-> inds]}
    ELSE UNION { LET C == Component(c.G, j)
                 IN RemainLoop(c,
                               (cid :> NewCluster(c, C)) @@ cl,
                               [k \in Contexts |-> IF k \in C THEN cid ELSE inds[k]],
                               remain \ C,
                               cid + 1)
                 : j \in remain }

\* the fragments numbered from the split cluster's own id: cluster_i + 1
ContextStep_NextId(c, i, p) ==
    LET C  == Component(c.G, i)
        ci == p.inds[i]
    IN IF Cardinality(C) < Cardinality(p.cl[ci].users)
       THEN LET cl1 == (ci :> NewCluster(c, C)) @@ p.cl
            IN RemainLoop(c, cl1, p.inds, p.cl[ci].users \ C, ci + 1)
       ELSE {p}

\* one iteration of "for i in self.context_indexes" of lines 108-128
ContextStep(c, i, p) ==
    LET C  == Component(c.G, i)
        ci == p.inds[i]
    IN IF Cardinality(C) < Cardinality(p.cl[ci].users)
       THEN LET cl1 == (ci :> NewCluster(c, C)) @@ p.cl
            IN RemainLoop(c, cl1, p.inds, p.cl[ci].users \ C, FreshClusterId(cl1))
       ELSE {p}

RECURSIVE ContextLoop(_, _, _)
ContextLoop(c, i, P) ==
    IF i = NContexts THEN P
    ELSE ContextLoop(c, i + 1, UNION {ContextStep(c, i, p) : p \in P})

\* self.num_clusters[t] = len(self.clusters): an IndexError when t is not an
\* index of num_clusters, raised after the graph and the clusters were changed
RecordNumClusters(c, t) ==
    IF t \in DOMAIN c.num_clusters
    THEN [c EXCEPT !.num_clusters[t] = Cardinality(DOMAIN c.clusters)]
    ELSE c

\* CLUB.update_cluster(t): the set of states it can leave
UpdateCluster(c, t) ==
    LET c2 == [c EXCEPT !.G = DeleteEdges(c)]
    IN IF c2.G # c.G
       THEN { RecordNumClusters([c2 EXCEPT !.clusters = p.cl, !.cluster_inds = p.inds], t)
              : p \in ContextLoop(c2, 0, {[cl |-> c.clusters, inds |-> c.cluster_inds]}) }
       ELSE { RecordNumClusters(c2, t) }

RECURSIVE UpdateAll(_, _, _)
\* for arm_i, reward, c_i in zip(last_pulls_i, rewards, range(n_contexts)):
\*     self.update(i=c_i, a=self.arms[arm_i], y=reward)
\* pr[k] = <<arm_i, reward>> of context k - 1; zip stops at the shortest list
UpdateAll(c, pr, k) ==
    IF k > Len(pr) \/ k > NContexts THEN c
    ELSE UpdateAll(ClubUpdate(c, k - 1, Arm(pr[k][1]), pr[k][2]), pr, k + 1)

TotalPulls(c) == SumInt(Contexts, c.num_pulls)

PullLists == UNION {[1 .. k -> ArmIdx \X RewardSet] : k \in 0 .. NContexts}

CLUBInit ==
    /\ family = Idle
    /\ cenv = Idle
    /\ ret = Idle
    /\ club \in {CLUBNew(g) : g \in SUBSET AllEdges}
    /\ agent = Idle
    /\ product = Idle
    /\ core = Idle
    /\ np_random = Idle
    /\ pc = "idle"
    /\ fed = << >>

\* a call CLUB.update(i, a, y)
CLUB_update ==
    /\ TotalPulls(club) < MaxPulls
    /\ \E i \in Contexts, a \in ArmIdx, y \in RewardSet :
          club' = ClubUpdate(club, i, Arm(a), y)
    /\ UNCHANGED <<agent, product, core, np_random, pc, fed, family, cenv, ret>>

\* a call CLUB.update_cluster(self.t)
CLUB_update_cluster ==
    /\ club' \in UpdateCluster(club, club.t)
    /\ UNCHANGED <<agent, product, core, np_random, pc, fed, family, cenv, ret>>

\* a call CLUB.update_arms(rewards); self.t += 1 is not reached when
\* update_cluster raised
CLUB_update_arms ==
    /\ \E pr \in PullLists :
          /\ TotalPulls(club) + Len(pr) <= MaxPulls
          /\ \E c3 \in UpdateCluster(UpdateAll(club, pr, 1), club.t) :
                club' = IF club.t \in DOMAIN club.num_clusters
                        THEN [c3 EXCEPT !.t = @ + 1]
                        ELSE c3
    /\ UNCHANGED <<agent, product, core, np_random, pc, fed, family, cenv, ret>>

CLUBNext == CLUB_update \/ CLUB_update_cluster \/ CLUB_update_arms

SpecCLUB == CLUBInit /\ [][CLUBNext]_vars

-----------------------------------------------------------------------------
(* Properties of CLUB *)

ClusterOf(i) == club.clusters[club.cluster_inds[i]]

\* C1: at every round, for every context i the user set of the cluster
\* clusters[cluster_inds[i]] is the connected component of i in G, and the
\* clusters partition the context set, for every initial graph.
ClusterGraphInvariant ==
    /\ \A i \in Contexts : ClusterOf(i).users = Component(club.G, i)
    /\ UNION {club.clusters[k].users : k \in DOMAIN club.clusters} = Contexts
    /\ \A k1, k2 \in DOMAIN club.clusters :
          k1 # k2 => club.clusters[k1].users \cap club.clusters[k2].users = {}

\* C2: the edge set of G only shrinks: no step adds an edge, so an edge that
\* update_cluster removed is never present again.
EdgesOnlyShrink == [][club'.G \subseteq club.G]_vars

\* an edge was cut in round 0 and a later round has been completed
EdgeCutEarlier ==
    /\ club.t = 2
    /\ club.num_clusters[0] >= 2
    /\ club.G # AllEdges

\* C8: update_cluster never removes an edge one of whose endpoints has zero
\* pulls at the time of the call (num_pulls is not changed by update_cluster).
ZeroPullExclusion ==
    [][\A e \in club.G \ club'.G : \A i \in e : club'.num_pulls[i] > 0]_vars

\* a round was completed in which an edge joined a context with zero pulls to
\* a pulled context whose estimate is far enough to pass the norm test
ZeroPullEdgeKept ==
    /\ club.t >= 1
    /\ \E i, j \in Contexts :
          /\ {i, j} \in club.G
          /\ club.num_pulls[i] = 0
          /\ club.num_pulls[j] > 0
          /\ IfSplit(VSub(club.theta[i], club.theta[j]), 0, club.num_pulls[j])

\* C9: every cluster that cluster_inds refers to has N = sum of num_pulls,
\* b = sum of b and M = I + sum of (M - I) over its users.
AggregatedStatistics ==
    \A i \in Contexts :
       LET cl == ClusterOf(i)
       IN /\ cl.N = SumInt(cl.users, club.num_pulls)
          /\ cl.b = SumVec(cl.users, club.b)
          /\ cl.M = MAdd(Eye, SumMat(cl.users, [k \in cl.users |-> MSub(club.M[k], Eye)]))

\* after a split, a fragment of two users that was updated again after it
\* was materialised
FragmentUpdated ==
    \E k \in DOMAIN club.clusters :
       /\ Cardinality(DOMAIN club.clusters) >= 2
       /\ Cardinality(club.clusters[k].users) = 2
       /\ club.clusters[k].N = 2
       /\ \A i \in club.clusters[k].users : club.cluster_inds[i] = k

NumClustersMonotone ==
    \A r1, r2 \in DOMAIN club.num_clusters :
       (r1 < r2 /\ club.num_clusters[r2] > 0)
          => club.num_clusters[r1] <= club.num_clusters[r2]

\* C10: two contexts in different clusters are in different clusters after
\* every step, and the recorded cluster counts are non-decreasing.
ClustersNeverMerge ==
    [][/\ \A i, j \in Contexts :
             club.cluster_inds[i] # club.cluster_inds[j]
                => club'.cluster_inds[i] # club'.cluster_inds[j]
       /\ NumClustersMonotone']_vars

\* two splits in two different rounds
SplitTwice ==
    /\ club.num_clusters[0] = 2
    /\ club.num_clusters[1] = 3

\* C18: update_cluster finishes from every reachable state, and in every
\* step a context whose cluster index changes gets an id that no cluster
\* used before the step; every fresh cluster holds at least one context, all
\* of them moved to it in this step and none of them in another fresh
\* cluster, so the loop over remain_users ran at most once per remaining
\* user and fewer times than the split cluster had users; every user that
\* left a split cluster was given such an id.
UpdateClusterTerminates ==
    [][LET old   == club.clusters
           new   == club'.clusters
           fresh == DOMAIN new \ DOMAIN old
           moved == {i \in Contexts : club'.cluster_inds[i] # club.cluster_inds[i]}
       IN /\ UpdateCluster(club, club.t) # {}
          /\ \A i \in moved : club'.cluster_inds[i] \in fresh
          /\ \A k \in fresh :
                /\ new[k].users # {}
                /\ new[k].users \subseteq moved
                /\ \A i \in new[k].users : club'.cluster_inds[i] = k
          /\ Cardinality(fresh) <= Cardinality(moved)
          /\ \A k \in DOMAIN old :
                /\ Cardinality({f \in fresh : new[f].users \subseteq old[k].users})
                      < Cardinality(old[k].users)
                /\ old[k].users \ new[k].users \subseteq moved
          /\ \A i \in Contexts : i \in new[club'.cluster_inds[i]].users]_vars

\* one call of update_cluster split the initial cluster into three, running
\* the loop over remain_users twice
ThreeFragments ==
    /\ club.num_clusters[0] = 3
    /\ Cardinality({club.cluster_inds[i] : i \in Contexts}) = 3

-----------------------------------------------------------------------------
(* numpy's global random stream *)

\* The stream after np.random.seed(s) is a fixed function of s and of the
\* number of values drawn since.  NpRaw stands for the generator's output
\* at position pos of the stream of seed s.
NpRaw(s, pos) == ((s + 1) * (pos + 2) * 5 + pos) % 7

\* np.random.seed(s)
NpSeed(s) == [seed |-> s, pos |-> 0]
\* int(np.random.uniform(high=n)) on the stream r
NpUniformInt(r, n) == NpRaw(r.seed, r.pos) % n
\* the stream after k draws
NpAdvance(r, k) == [r EXCEPT !.pos = @ + k]

-----------------------------------------------------------------------------
(* LinUCBAgent (src/clustering_bandits/src/agents.py) *)

Lmbd == 1
\* _beta_t_fun_linucb() in thousandths for lmbd = 1, horizon = 4,
\* max_theta_norm = 1, max_arm_norm = 1, arm_dim = 2:
\* 1 * sqrt(1) + sqrt(2 ln 4 + 2 ln((2 + 4) / 2)) = 3.229
BetaT == 3229

\* np.argmax: the first index of a maximum of the list u (indices from 0)
ArgMax(u) == MinOf({i \in 0 .. Len(u) - 1 : \A j \in 1 .. Len(u) : u[j] <= u[i + 1]})

\* LinUCBAgent.__init__ followed by reset()
LinUCBNew ==
    [t           |-> 0,
     a_hist      |-> << >>,
     last_pull_i |-> None,
     V_t         |-> MScale(Lmbd, Eye),
     b_vect      |-> ZeroVec,
     theta_hat   |-> ZeroVec,
     last_ucb    |-> [a \in 1 .. NArms |-> 0],
     first       |-> TRUE]

\* the score of one arm in _estimate_linucb_arm:
\* theta_hat.T @ arm + bound * sqrt(arm.T @ inv(V_t) @ arm)
UcbScore(ag, arm) ==
    Dot(ag.theta_hat, arm)
      + (BetaT * ISqrt((Scale * Scale * Dot(arm, MVec(Adj(ag.V_t), arm))) \div Det(ag.V_t)))
           \div Scale

\* _estimate_linucb_arm writes the scores of all arms to last_ucb
EstimateLinUCBArm(ag) == [ag EXCEPT !.last_ucb = [a \in 1 .. NArms |-> UcbScore(ag, Arms[a])]]

\* pull_arm with the flag first left set after the first pull
LinUCBPullArm_FirstNotCleared(ag, arm_i, r) ==
    IF arm_i # None
    THEN [ag |-> [ag EXCEPT !.a_hist = Append(@, arm_i), !.last_pull_i = arm_i],
          rnd |-> r]
    ELSE LET a == NpUniformInt(r, NArms)
         IN [ag |-> [ag EXCEPT !.last_pull_i = a, !.a_hist = Append(@, a)],
             rnd |-> NpAdvance(r, 1)]

\* LinUCBAgent.pull_arm(arm_i): arm_i = None for a call without it; r is the
\* global random stream.  The result is the agent and the stream afterwards.
LinUCBPullArm(ag, arm_i, r) ==
    IF arm_i # None
    THEN [ag |-> [ag EXCEPT !.a_hist = Append(@, arm_i), !.last_pull_i = arm_i],
          rnd |-> r]
    ELSE IF ag.first
    THEN LET a == NpUniformInt(r, NArms)
         IN [ag |-> [ag EXCEPT !.last_pull_i = a, !.first = FALSE,
                               !.a_hist = Append(@, a)],
             rnd |-> NpAdvance(r, 1)]
    ELSE LET e == EstimateLinUCBArm(ag)
             a == ArgMax(e.last_ucb)
         IN [ag |-> [e EXCEPT !.last_pull_i = a, !.a_hist = Append(@, a)],
             rnd |-> r]

\* the design matrix set to lmbd * I plus the last outer product only
LinUCBUpdate_Overwrite(ag, reward) ==
    LET last_pull == Arm(ag.last_pull_i)
        V == MAdd(MScale(Lmbd, Eye), Outer(last_pull, last_pull))
        b == VAdd(ag.b_vect, VScale(reward, last_pull))
    IN [ag EXCEPT !.V_t = V, !.b_vect = b, !.theta_hat = Solve(V, b), !.t = @ + 1]

\* LinUCBAgent.update(reward)
LinUCBUpdate(ag, reward) ==
    LET last_pull == Arm(ag.last_pull_i)
        V == MAdd(ag.V_t, Outer(last_pull, last_pull))
        b == VAdd(ag.b_vect, VScale(reward, last_pull))
    IN [ag EXCEPT !.V_t = V, !.b_vect = b, !.theta_hat = Solve(V, b), !.t = @ + 1]

Seeds == 0 .. MaxSeed

\* a LinUCBAgent right after construction; the global stream is the one
\* Agent.__init__ seeded, after any number of draws by other code
LinUCBInit ==
    /\ family = Idle
    /\ cenv = Idle
    /\ ret = Idle
    /\ agent = LinUCBNew
    /\ np_random \in {NpAdvance(NpSeed(s), k) : s \in Seeds, k \in 0 .. MaxSeed}
    /\ pc = "pull_arm"
    /\ fed = << >>
    /\ club = Idle
    /\ product = Idle
    /\ core = Idle

\* a call agent.pull_arm()
LinUCB_pull_arm ==
    /\ pc = "pull_arm"
    /\ agent.t < MaxRounds
    /\ LET res == LinUCBPullArm(agent, None, np_random)
       IN /\ agent' = res.ag
          /\ np_random' = res.rnd
    /\ pc' = "update"
    /\ UNCHANGED <<club, product, core, fed, family, cenv, ret>>

\* a call agent.update(reward)
LinUCB_update ==
    /\ pc = "update"
    /\ \E reward \in RewardSet :
          /\ agent' = LinUCBUpdate(agent, reward)
          /\ fed' = Append(fed, reward)
    /\ pc' = "pull_arm"
    /\ UNCHANGED <<club, product, core, np_random, family, cenv, ret>>

LinUCBNext == LinUCB_pull_arm \/ LinUCB_update

SpecLinUCB == LinUCBInit /\ [][LinUCBNext]_vars

-----------------------------------------------------------------------------
(* Properties of LinUCBAgent *)

RECURSIVE OuterSum(_, _)
\* the sum of the outer products of the arms pulled in rounds 1 .. n
OuterSum(hist, n) ==
    IF n = 0 THEN ZeroMat
    ELSE MAdd(OuterSum(hist, n - 1), Outer(Arm(hist[n]), Arm(hist[n])))

RECURSIVE RewardArmSum(_, _, _)
\* the sum of reward times arm over rounds 1 .. n
RewardArmSum(hist, rews, n) ==
    IF n = 0 THEN ZeroVec
    ELSE VAdd(RewardArmSum(hist, rews, n - 1), VScale(rews[n], Arm(hist[n])))

\* C5: V_t = lmbd * I + the sum over the completed updates of the outer
\* product of the arm that pull_arm returned in that round, and b_vect = the
\* sum over the completed updates of reward times that arm.
SufficientStatistics ==
    /\ agent.V_t = MAdd(MScale(Lmbd, Eye), OuterSum(agent.a_hist, Len(fed)))
    /\ agent.b_vect = RewardArmSum(agent.a_hist, fed, Len(fed))

\* three completed rounds in which two different arms were pulled
ThreeUpdates ==
    /\ Len(fed) = 3
    /\ pc = "pull_arm"
    /\ \E r1, r2 \in 1 .. 3 : agent.a_hist[r1] # agent.a_hist[r2]

-----------------------------------------------------------------------------
(* ProductLinUCBAgent (src/clustering_bandits/src/agents.py) *)

\* ProductLinUCBAgent.__init__ followed by reset()
ProductNew ==
    [t              |-> 0,
     a_hist         |-> << >>,
     last_pull_i    |-> None,
     last_context_i |-> None,
     agent_global   |-> LinUCBNew,
     context_agent  |-> [x \in Contexts |-> LinUCBNew]]

\* pull_arm with the sub-agents called without arm_i, so that they score
\* the arms themselves
ProductPullArm_SubAgentsEstimate(p, context_i) ==
    LET g   == p.agent_global
        ca  == p.context_agent[context_i]
        ucb == [a \in 1 .. NArms |-> g.last_ucb[a] + ca.last_ucb[a]]
        a_i == ArgMax(ucb)
    IN [p EXCEPT !.last_context_i = context_i,
                 !.last_pull_i = a_i,
                 !.agent_global = LinUCBPullArm(g, None, NpSeed(0)).ag,
                 !.context_agent[context_i] = LinUCBPullArm(ca, None, NpSeed(0)).ag,
                 !.a_hist = Append(@, a_i)]

\* ProductLinUCBAgent.pull_arm(context_i); the sub-agents are called with
\* arm_i given, so they draw nothing from the random stream
ProductPullArm(p, context_i) ==
    LET g   == p.agent_global
        ca  == p.context_agent[context_i]
        ucb == [a \in 1 .. NArms |-> g.last_ucb[a] + ca.last_ucb[a]]
        a_i == ArgMax(ucb)
    IN [p EXCEPT !.last_context_i = context_i,
                 !.last_pull_i = a_i,
                 !.agent_global = LinUCBPullArm(g, a_i, Idle).ag,
                 !.context_agent[context_i] = LinUCBPullArm(ca, a_i, Idle).ag,
                 !.a_hist = Append(@, a_i)]

\* update with the global sub-agent updated before the residual is computed
ProductUpdate_GlobalFirst(p, reward) ==
    LET g2          == LinUCBUpdate(p.agent_global, reward)
        pred_reward == Dot(g2.theta_hat, Arm(g2.last_pull_i))
        residual    == reward - pred_reward
    IN [p EXCEPT !.context_agent[p.last_context_i] = LinUCBUpdate(@, residual),
                 !.agent_global = g2]

\* ProductLinUCBAgent.update(reward)
ProductUpdate(p, reward) ==
    LET pred_reward == Dot(p.agent_global.theta_hat, Arm(p.agent_global.last_pull_i))
        residual    == reward - pred_reward
        p1 == [p EXCEPT !.context_agent[p.last_context_i] = LinUCBUpdate(@, residual)]
    IN [p1 EXCEPT !.agent_global = LinUCBUpdate(@, reward)]

ProductInit ==
    /\ family = Idle
    /\ cenv = Idle
    /\ ret = Idle
    /\ product = ProductNew
    /\ pc = "pull_arm"
    /\ fed = << >>
    /\ np_random \in {NpSeed(s) : s \in Seeds}
    /\ club = Idle
    /\ agent = Idle
    /\ core = Idle

\* a call product.pull_arm(context_i)
Product_pull_arm ==
    /\ pc = "pull_arm"
    /\ Len(fed) < MaxRounds
    /\ \E context_i \in Contexts : product' = ProductPullArm(product, context_i)
    /\ pc' = "update"
    /\ UNCHANGED <<club, agent, core, np_random, fed, family, cenv, ret>>

\* a call product.update(reward)
Product_update ==
    /\ pc = "update"
    /\ \E reward \in RewardSet :
          /\ product' = ProductUpdate(product, reward)
          /\ fed' = Append(fed, reward)
    /\ pc' = "pull_arm"
    /\ UNCHANGED <<club, agent, core, np_random, family, cenv, ret>>

ProductNext == Product_pull_arm \/ Product_update

SpecProduct == ProductInit /\ [][ProductNext]_vars

-----------------------------------------------------------------------------
(* Properties of ProductLinUCBAgent *)

\* C7: update(reward) gives the per-context sub-agent of the last pulled
\* context the residual reward - theta_global . arm, with theta_global the
\* global estimate before this update, and gives the global sub-agent the
\* raw reward; no other sub-agent changes.
ResidualBeforeGlobalUpdate ==
    [][(pc = "update" /\ pc' = "pull_arm") =>
          LET reward   == fed'[Len(fed')]
              x        == product.last_context_i
              g        == product.agent_global
              arm      == Arm(product.last_pull_i)
              residual == reward - Dot(g.theta_hat, arm)
          IN /\ product'.context_agent[x].b_vect
                   = VAdd(product.context_agent[x].b_vect, VScale(residual, arm))
             /\ product'.agent_global.b_vect = VAdd(g.b_vect, VScale(reward, arm))
             /\ product'.context_agent[x].V_t = MAdd(product.context_agent[x].V_t, Outer(arm, arm))
             /\ product'.agent_global.V_t = MAdd(g.V_t, Outer(arm, arm))
             /\ \A y \in Contexts \ {x} :
                   product'.context_agent[y] = product.context_agent[y]]_vars

\* an update whose residual differs from the raw reward has been made: the
\* global estimate is not zero and a per-context b_vect differs from the
\* global one
ResidualFed ==
    /\ pc = "pull_arm"
    /\ Len(fed) >= 2
    /\ product.agent_global.theta_hat # ZeroVec
    /\ \E x \in Contexts :
          /\ product.context_agent[x].t = 2
          /\ product.context_agent[x].b_vect # product.agent_global.b_vect

-----------------------------------------------------------------------------
(* Floating-point values that can be infinite or not a number *)

\* a finite value v (in thousandths), an infinity, or NaN
Num(v) == [k |-> "num", v |-> v]
NaN    == [k |-> "nan", v |-> 0]
PosInf == [k |-> "inf", v |-> 1]
NegInf == [k |-> "inf", v |-> 0 - 1]

\* np.log(t) for an integer t >= 0 in thousandths; np.log(0) is -inf
LogTable == <<0, 693, 1099, 1386, 1609, 1792, 1946, 2079>>
FLog(t) == IF t = 0 THEN NegInf ELSE Num(LogTable[t])

\* k * x for an integer k > 0
FTimes(k, x) == IF x.k = "num" THEN Num(k * x.v) ELSE x

\* x / n for a finite or infinite x and a count n >= 0, as IEEE division
FDiv(x, n) ==
    IF x.k = "nan" THEN NaN
    ELSE IF x.k = "inf" THEN x
    ELSE IF n # 0 THEN Num(x.v \div n)
    ELSE IF x.v = 0 THEN NaN
    ELSE IF x.v > 0 THEN PosInf ELSE NegInf

\* np.sqrt: NaN for a negative argument and for -inf
FSqrt(x) ==
    IF x.k = "nan" THEN NaN
    ELSE IF x.k = "inf" THEN (IF x.v > 0 THEN PosInf ELSE NaN)
    ELSE IF x.v < 0 THEN NaN
    ELSE Num(ISqrt(Scale * x.v))

\* v + x for a finite v
FPlus(v, x) == IF x.k = "num" THEN Num(v + x.v) ELSE x

\* x <= y for values that are not NaN
FLeq(x, y) ==
    IF x.k = "inf" THEN (x.v < 0 \/ (y.k = "inf" /\ y.v > 0))
    ELSE IF y.k = "inf" THEN y.v > 0
    ELSE x.v <= y.v

\* np.argmax of a list of such values: the first NaN if there is one,
\* otherwise the first maximum (indices from 0)
FArgMax(u) ==
    LET nans == {i \in 1 .. Len(u) : u[i].k = "nan"}
    IN IF nans # {} THEN MinOf(nans) - 1
       ELSE MinOf({i \in 1 .. Len(u) : \A j \in 1 .. Len(u) : FLeq(u[j], u[i])}) - 1

-----------------------------------------------------------------------------
(* Clairvoyant and UCB1Agent (src/clustering_bandits/src/agents.py) *)

\* Clairvoyant.__init__ with context_set = None, followed by reset()
ClairvoyantNew(theta) ==
    [t |-> 0, a_hist |-> << >>, last_pull_i |-> None, theta |-> theta]

\* Clairvoyant.pull_arm(context_i=None)
ClairvoyantPullArm(ag) ==
    LET exp_rewards == [a \in 1 .. NArms |-> Dot(ag.theta, Arms[a])]
        a_i == ArgMax(exp_rewards)
    IN [ag EXCEPT !.last_pull_i = a_i, !.a_hist = Append(@, a_i)]

\* Clairvoyant.update(reward)
ClairvoyantUpdate(ag, reward) == [ag EXCEPT !.t = @ + 1]

\* max_reward = 1
MaxReward == 1

\* UCB1Agent.__init__ followed by reset()
UCB1New ==
    [t           |-> 0,
     a_hist      |-> << >>,
     last_pull_i |-> None,
     avg_reward  |-> [a \in 1 .. NArms |-> 0],
     n_pulls     |-> [a \in 1 .. NArms |-> 0]]

\* the list ucb1 of UCB1Agent.pull_arm:
\* avg_reward[a] + max_reward * sqrt(2 * log(t) / n_pulls[a])
UCB1Scores(ag) ==
    [a \in 1 .. NArms |->
        FPlus(ag.avg_reward[a],
              FTimes(MaxReward, FSqrt(FDiv(FTimes(2, FLog(ag.t)), ag.n_pulls[a]))))]

\* UCB1Agent.pull_arm()
UCB1PullArm(ag) ==
    LET a_i == FArgMax(UCB1Scores(ag))
    IN [ag EXCEPT !.last_pull_i = a_i,
                  !.n_pulls[a_i + 1] = @ + 1,
                  !.a_hist = Append(@, a_i)]

\* UCB1Agent.update(reward); n_pulls already counts the last pull
UCB1Update(ag, reward) ==
    LET a == ag.last_pull_i + 1
    IN [ag EXCEPT !.avg_reward[a] = (@ * ag.n_pulls[a] + reward) \div (ag.n_pulls[a] + 1),
                  !.t = @ + 1]

-----------------------------------------------------------------------------

(* ContextualLinUCBAgent and INDLinUCBAgent (src/clustering_bandits/src/agents.py) *)

\* the rows of the context_set argument
ContextSet == << <<1, 1>>, <<1, 0>>, <<0, 1>> >>

\* psi = lambda a, x: np.multiply(a, x)
Psi(a, x) == [d \in 1 .. ArmDim |-> a[d] * x[d]]

\* ContextualLinUCBAgent.__init__ with the first n rows of ContextSet;
\* last_context is not assigned before the first pull_arm
ContextualNew(n) ==
    LinUCBNew @@ [context_set |-> SubSeq(ContextSet, 1, n), last_context |-> None]

\* ContextualLinUCBAgent._estimate_linucb_arm
ContextualEstimate(ag) ==
    [ag EXCEPT !.last_ucb = [a \in 1 .. NArms |-> UcbScore(ag, Psi(Arms[a], ag.last_context))]]

\* ContextualLinUCBAgent.pull_arm(context_i) on the global stream r
ContextualPullArm(ag, context_i, r) ==
    LET ag1 == [ag EXCEPT !.last_context = ag.context_set[context_i + 1]]
    IN IF ag1.first
       THEN LET a == NpUniformInt(r, NArms)
            IN [ag |-> [ag1 EXCEPT !.last_pull_i = a, !.first = FALSE,
                                   !.a_hist = Append(@, a)],
                rnd |-> NpAdvance(r, 1)]
       ELSE LET e == ContextualEstimate(ag1)
                a == ArgMax(e.last_ucb)
            IN [ag |-> [e EXCEPT !.last_pull_i = a, !.a_hist = Append(@, a)],
                rnd |-> r]

\* ContextualLinUCBAgent.update(reward)
ContextualUpdate(ag, reward) ==
    LET last_psi == Psi(Arm(ag.last_pull_i), ag.last_context)
        V == MAdd(ag.V_t, Outer(last_psi, last_psi))
        b == VAdd(ag.b_vect, VScale(reward, last_psi))
    IN [ag EXCEPT !.V_t = V, !.b_vect = b, !.theta_hat = Solve(V, b), !.t = @ + 1]

\* the list context_agent built by reset() of INDLinUCBAgent and of
\* ProductLinUCBAgent: one LinUCBAgent per element of context_set
ContextAgents(n) == [x \in 0 .. n - 1 |-> LinUCBNew]

\* INDLinUCBAgent.__init__ followed by reset(), for n contexts
INDNew(n) ==
    [t              |-> 0,
     a_hist         |-> << >>,
     last_pull_i    |-> None,
     last_context_i |-> None,
     context_agent  |-> ContextAgents(n)]

\* INDLinUCBAgent.pull_arm(context_i) on the global stream r
INDPullArm(p, context_i, r) ==
    LET sub == LinUCBPullArm(p.context_agent[context_i], None, r)
    IN [ag  |-> [p EXCEPT !.last_context_i = context_i,
                          !.context_agent[context_i] = sub.ag,
                          !.a_hist = Append(@, sub.ag.last_pull_i)],
        rnd |-> sub.rnd]

\* INDLinUCBAgent.update(reward)
INDUpdate(p, reward) ==
    [p EXCEPT !.context_agent[p.last_context_i] = LinUCBUpdate(@, reward)]

-----------------------------------------------------------------------------
(* CLUB.pull_arm (src/clustering_bandits/src/CLUB.py) *)

\* np.log(1 + N / arm_dim) in thousandths for N = 0, 1, ...
Log1pTable == <<0, 405, 693, 916, 1099, 1253, 1386, 1504, 1609, 1705>>

\* CLUB._beta(N, t):
\* sqrt(arm_dim * log(1 + N / arm_dim) + 4 * log(t) + log(2)) + 1
ClubBeta(N, t) ==
    FPlus(Scale, FSqrt(FPlus(ArmDim * Log1pTable[N + 1] + LogTable[2],
                             FTimes(4, FLog(t)))))

\* x * q for a finite q >= 0 in thousandths
FScale(x, q) ==
    IF x.k = "num" THEN Num((x.v * q) \div Scale)
    ELSE IF x.k = "inf" /\ q = 0 THEN NaN
    ELSE x

\* the scores of CLUB._select_item_ucb:
\* np.dot(items, theta) + beta * (np.matmul(items, M_inv) * items).sum(axis=1)
ClubScores(M, theta, N, t) ==
    [a \in 1 .. NArms |->
        FPlus(Dot(theta, Arms[a]),
              FScale(ClubBeta(N, t),
                     (Scale * Dot(Arms[a], MVec(Adj(M), Arms[a]))) \div Det(M)))]

\* CLUB.pull_arm(context_i)
CLUBPullArm(c, context_i) ==
    LET cluster == c.clusters[c.cluster_inds[context_i]]
        a_i     == FArgMax(ClubScores(cluster.M, cluster.theta, cluster.N, c.t))
    IN [c EXCEPT !.last_pull_i = a_i, !.a_hist = Append(@, a_i)]

-----------------------------------------------------------------------------

(* LinearEnvironment (src/clustering_bandits/src/environment.py) *)

\* theta of the environment, in thousandths
EnvTheta == <<1000, 0>>
\* noise_std = 0.01, in thousandths
NoiseStd == 10

\* np.random.normal(0, noise_std, n) on the stream of seed s from its start:
\* the k-th value is a fixed function of the k-th output of the stream
NoiseSeq(s, n) == [k \in 1 .. n |-> ((NpRaw(s, k - 1) % 3) - 1) * NoiseStd]

\* LinearEnvironment.reset(i): t = 0, the stream reseeded with
\* random_state + i and n_rounds values drawn from it; rewards is not touched
EnvReset(env, i) ==
    [env EXCEPT !.t = 0, !.noise = NoiseSeq(env.random_state + i, env.n_rounds)]

\* the global stream after environment.reset(i)
StreamAfterReset(env, i) == NpAdvance(NpSeed(env.random_state + i), env.n_rounds)

\* LinearEnvironment.__init__, which ends with reset(0).  rewards = None;
\* np.append treats None as the one-element array [None].
EnvNew(rs) ==
    EnvReset([n_rounds     |-> EpochRounds,
              theta        |-> EnvTheta,
              random_state |-> rs,
              t            |-> 0,
              noise        |-> << >>,
              rewards      |-> <<None>>], 0)

\* LinearEnvironment.round(action)
EnvRound(env, action) ==
    LET obs_reward == Dot(env.theta, action) + env.noise[env.t + 1]
    IN [env EXCEPT !.rewards = Append(@, obs_reward), !.t = @ + 1]

-----------------------------------------------------------------------------
(* The agent classes behind one constructor call and one round protocol *)

Classes ==
    {"Clairvoyant", "UCB1Agent", "LinUCBAgent", "ContextualLinUCBAgent",
     "INDLinUCBAgent", "ProductLinUCBAgent", "CLUB"}
LinUCBFamily ==
    {"LinUCBAgent", "ContextualLinUCBAgent", "INDLinUCBAgent", "ProductLinUCBAgent"}
\* the lmbd arguments tried
LmbdSet == {0 - 1, 0, Lmbd}
\* the sizes of the context_set arguments tried
CtxSizes == {0, NContexts}

\* the outcome of a call: an object, or an exception
Ok(obj) == [ok |-> TRUE, obj |-> obj]
Raise == [ok |-> FALSE, obj |-> Idle]

\* LinUCBAgent(arms, horizon, lmbd, ...): assert lmbd > 0
LinUCBCtor(lmbd) == IF lmbd > 0 THEN Ok(LinUCBNew) ELSE Raise

\* the constructor call cls(..., context_set of n elements, lmbd=lmbd)
Construct(cls, lmbd, n) ==
    CASE cls = "Clairvoyant" -> Ok(ClairvoyantNew(EnvTheta))
      [] cls = "UCB1Agent" -> Ok(UCB1New)
      [] cls = "LinUCBAgent" -> LinUCBCtor(lmbd)
      [] cls = "ContextualLinUCBAgent" ->
            IF LinUCBCtor(lmbd).ok THEN Ok(ContextualNew(n)) ELSE Raise
      [] cls = "INDLinUCBAgent" ->
            \* reset() builds one LinUCBAgent per element of context_set
            IF \A x \in 0 .. n - 1 : LinUCBCtor(lmbd).ok THEN Ok(INDNew(n)) ELSE Raise
      [] cls = "ProductLinUCBAgent" ->
            \* reset() builds agent_global, then one LinUCBAgent per context
            IF LinUCBCtor(lmbd).ok /\ \A x \in 0 .. n - 1 : LinUCBCtor(lmbd).ok
            THEN Ok([ProductNew EXCEPT !.context_agent = ContextAgents(n)])
            ELSE Raise
      [] cls = "CLUB" -> Ok(CLUBNew(AllEdges))

\* a list of finite scores
Nums(u) == [a \in 1 .. Len(u) |-> Num(u[a])]

\* pull_arm of the class: the outcome, the global stream afterwards and the
\* scores handed to np.argmax (none when no argmax is evaluated)
FamilyPull(cls, obj, context_i, r) ==
    CASE cls = "Clairvoyant" ->
            [ok |-> TRUE, obj |-> ClairvoyantPullArm(obj), rnd |-> r,
             scores |-> Nums([a \in 1 .. NArms |-> Dot(obj.theta, Arms[a])])]
      [] cls = "UCB1Agent" ->
            [ok |-> TRUE, obj |-> UCB1PullArm(obj), rnd |-> r, scores |-> UCB1Scores(obj)]
      [] cls = "LinUCBAgent" ->
            LET res == LinUCBPullArm(obj, None, r)
            IN [ok |-> TRUE, obj |-> res.ag, rnd |-> res.rnd,
                scores |-> IF obj.first THEN << >> ELSE Nums(res.ag.last_ucb)]
      [] cls = "ContextualLinUCBAgent" ->
            IF context_i + 1 \in DOMAIN obj.context_set
            THEN LET res == ContextualPullArm(obj, context_i, r)
                 IN [ok |-> TRUE, obj |-> res.ag, rnd |-> res.rnd,
                     scores |-> IF obj.first THEN << >> ELSE Nums(res.ag.last_ucb)]
            ELSE [ok |-> FALSE, obj |-> obj, rnd |-> r, scores |-> << >>]
      [] cls = "INDLinUCBAgent" ->
            IF context_i \in DOMAIN obj.context_agent
            THEN LET res == INDPullArm(obj, context_i, r)
                 IN [ok |-> TRUE, obj |-> res.ag, rnd |-> res.rnd,
                     scores |-> IF obj.context_agent[context_i].first THEN << >>
                                ELSE Nums(res.ag.context_agent[context_i].last_ucb)]
            ELSE [ok |-> FALSE, obj |-> [obj EXCEPT !.last_context_i = context_i],
                  rnd |-> r, scores |-> << >>]
      [] cls = "ProductLinUCBAgent" ->
            IF context_i \in DOMAIN obj.context_agent
            THEN [ok |-> TRUE, obj |-> ProductPullArm(obj, context_i), rnd |-> r,
                  scores |-> Nums([a \in 1 .. NArms |->
                                     obj.agent_global.last_ucb[a]
                                       + obj.context_agent[context_i].last_ucb[a]])]
            ELSE [ok |-> FALSE, obj |-> [obj EXCEPT !.last_context_i = context_i],
                  rnd |-> r, scores |-> << >>]
      [] cls = "CLUB" ->
            LET cluster == obj.clusters[obj.cluster_inds[context_i]]
            IN [ok |-> TRUE, obj |-> CLUBPullArm(obj, context_i), rnd |-> r,
                scores |-> ClubScores(cluster.M, cluster.theta, cluster.N, obj.t)]

\* CLUB.update_arms(rewards) with last_pulls_i and rewards zipped to pr: the
\* set of outcomes; the IndexError of update_cluster leaves t as it was
CLUBUpdateArms(c, pr) ==
    {[ok  |-> c.t \in DOMAIN c.num_clusters,
      obj |-> IF c.t \in DOMAIN c.num_clusters THEN [c3 EXCEPT !.t = @ + 1] ELSE c3]
     : c3 \in UpdateCluster(UpdateAll(c, pr, 1), c.t)}

\* update(reward) of the class, update_arms([reward]) for CLUB with the arm
\* of the last pull: the set of outcomes
FamilyUpdate(cls, obj, reward) ==
    CASE cls = "Clairvoyant" -> {Ok(ClairvoyantUpdate(obj, reward))}
      [] cls = "UCB1Agent" -> {Ok(UCB1Update(obj, reward))}
      [] cls = "LinUCBAgent" -> {Ok(LinUCBUpdate(obj, reward))}
      [] cls = "ContextualLinUCBAgent" -> {Ok(ContextualUpdate(obj, reward))}
      [] cls = "INDLinUCBAgent" -> {Ok(INDUpdate(obj, reward))}
      [] cls = "ProductLinUCBAgent" -> {Ok(ProductUpdate(obj, reward))}
      [] cls = "CLUB" -> CLUBUpdateArms(obj, << <<obj.last_pull_i, reward>> >>)

\* no constructor was called yet
FamilyInit ==
    /\ family = [cls |-> "none"]
    /\ pc = "construct"
    /\ np_random = NpSeed(0)
    /\ fed = << >>
    /\ ret = Idle
    /\ club = Idle
    /\ agent = Idle
    /\ product = Idle
    /\ core = Idle
    /\ cenv = Idle

\* the constructor call; Agent.__init__ seeds the global stream
Family_construct ==
    /\ pc = "construct"
    /\ \E cls \in Classes, lmbd \in LmbdSet, n \in CtxSizes, rs \in Seeds :
          LET res == Construct(cls, lmbd, n)
          IN /\ family' = [cls |-> cls, lmbd |-> lmbd, n |-> n, obj |-> res.obj]
             /\ pc' = IF res.ok THEN "pull_arm" ELSE "rejected"
             /\ np_random' = NpSeed(rs)
    /\ UNCHANGED <<club, agent, product, core, fed, cenv, ret>>

\* a call pull_arm(context_i) of the agent built
Family_pull_arm ==
    /\ pc = "pull_arm"
    /\ Len(fed) < MaxRounds
    /\ \E context_i \in Contexts :
          LET res == FamilyPull(family.cls, family.obj, context_i, np_random)
          IN /\ family' = [family EXCEPT !.obj = res.obj]
             /\ np_random' = res.rnd
             /\ ret' = [call |-> "pull_arm", scores |-> res.scores]
             /\ pc' = IF res.ok THEN "update" ELSE "raised"
    /\ UNCHANGED <<club, agent, product, core, fed, cenv>>

\* a call update(reward) of the agent built, which ends the round
Family_update ==
    /\ pc = "update"
    /\ \E reward \in RewardSet :
          \E res \in FamilyUpdate(family.cls, family.obj, reward) :
             /\ family' = [family EXCEPT !.obj = res.obj]
             /\ fed' = Append(fed, reward)
             /\ pc' = IF res.ok THEN "pull_arm" ELSE "raised"
    /\ UNCHANGED <<club, agent, product, core, np_random, cenv, ret>>

FamilyNext == Family_construct \/ Family_pull_arm \/ Family_update

SpecFamily == FamilyInit /\ [][FamilyNext]_vars

-----------------------------------------------------------------------------

(* Properties of the agent classes *)

\* C11: an agent of the LinUCB family constructed with lmbd <= 0 is rejected
\* by its constructor, for every context set, so it never reaches pull_arm
\* or update.
NonPositiveLambdaRejected ==
    (family.cls \in LinUCBFamily /\ family.lmbd <= 0) => pc = "rejected"

\* C12: no undefined score reaches the argmax of pull_arm: the scores that
\* CLUB.pull_arm and UCB1Agent.pull_arm evaluate are never NaN, in the first
\* round (t = 0) and for arms never pulled (n_pulls[a] = 0) included.
ColdStartGuard ==
    (ret # Idle /\ family.cls \in {"CLUB", "UCB1Agent"}) =>
       \A a \in 1 .. Len(ret.scores) : ret.scores[a].k # "nan"

\* C17: between rounds the round counter t of the agent equals the number
\* of rounds completed since construction, for every agent class.
RoundCounterCountsRounds ==
    (pc = "pull_arm" /\ family.cls \in Classes) => family.obj.t = Len(fed)

-----------------------------------------------------------------------------

(* ContextualLinearEnvironment (src/clustering_bandits/src/environment.py) *)

\* cap on the number of values drawn from the global stream after a reset
MaxDraws == 8

\* the contexts argument: the context indices
ContextList == [k \in 1 .. NContexts |-> k - 1]

\* np.random.choice(a) on the stream r: one value of the stream picks an
\* element of a
NpChoice(r, a) == a[(NpRaw(r.seed, r.pos) % Len(a)) + 1]

\* psi = lambda a, x: a, the default of ContextualLinearEnvironment
EnvPsi(a, x) == a

\* ContextualLinearEnvironment.__init__: LinearEnvironment.__init__, then
\* contexts and psi, then reset() once more; last_context is not assigned
\* before the first get_context (None stands for the missing attribute)
CtxEnvNew(rs) ==
    LET e == EnvReset(EnvNew(rs), 0)
    IN [n_rounds     |-> e.n_rounds,
        theta        |-> e.theta,
        random_state |-> e.random_state,
        t            |-> e.t,
        noise        |-> e.noise,
        rewards      |-> e.rewards,
        contexts     |-> ContextList,
        last_context |-> None]

\* ContextualLinearEnvironment.get_context(): two draws from the global
\* stream, the first kept in last_context, the second returned
CtxGetContext(env, r) ==
    [env     |-> [env EXCEPT !.last_context = NpChoice(r, env.contexts)],
     context |-> NpChoice(NpAdvance(r, 1), env.contexts),
     rnd     |-> NpAdvance(r, 2)]

\* ContextualLinearEnvironment.round(action)
CtxEnvRound(env, action) ==
    LET obs_reward == Dot(env.theta, EnvPsi(action, env.last_context))
                         + env.noise[env.t + 1]
    IN [env EXCEPT !.rewards = Append(@, obs_reward), !.t = @ + 1]

\* the environment right after construction; the global stream is where
\* the reset of the constructor left it, after any number of draws by other
\* code
CtxEnvInit ==
    /\ \E rs \in Seeds, k \in 0 .. MaxSeed :
          /\ cenv = CtxEnvNew(rs)
          /\ np_random = NpAdvance(StreamAfterReset(EnvNew(rs), 0), k)
    /\ ret = Idle
    /\ club = Idle
    /\ agent = Idle
    /\ product = Idle
    /\ core = Idle
    /\ family = Idle
    /\ pc = "idle"
    /\ fed = << >>

\* a call cenv.get_context(); ret keeps the context handed to the caller
CtxEnv_get_context ==
    /\ np_random.pos + 2 <= EpochRounds + MaxDraws
    /\ LET res == CtxGetContext(cenv, np_random)
       IN /\ cenv' = res.env
          /\ np_random' = res.rnd
          /\ ret' = [call |-> "get_context", context |-> res.context]
    /\ UNCHANGED <<club, agent, product, core, pc, fed, family>>

\* a call cenv.round(action), made after a context was asked for and while
\* noise values are left
CtxEnv_round ==
    /\ cenv.last_context # None
    /\ cenv.t < cenv.n_rounds
    /\ \E a \in ArmIdx : cenv' = CtxEnvRound(cenv, Arm(a))
    /\ UNCHANGED <<club, agent, product, core, np_random, pc, fed, family, ret>>

CtxEnvNext == CtxEnv_get_context \/ CtxEnv_round

SpecCtxEnv == CtxEnvInit /\ [][CtxEnvNext]_vars

\* C16: the context round(action) uses, last_context, is the context the
\* most recent get_context() call returned to the caller.
ContextCoherence ==
    ret # Idle => cenv.last_context = ret.context

\* get_context changes neither the clock t nor the noise values nor the
\* reward log of the environment
GetContextAdvancesNothing ==
    [][ret' # ret =>
          /\ cenv'.t = cenv.t
          /\ cenv'.noise = cenv.noise
          /\ cenv'.rewards = cenv.rewards]_vars

-----------------------------------------------------------------------------
(* Core (src/clustering_bandits/src/core.py) *)

\* ProcessPoolExecutor(max_workers=4)
PoolWorkers == 4
Workers == 1 .. PoolWorkers

\* One round of Core.epoch for a single-context agent: the agent pulls, the
\* environment plays the pulled arm and logs the reward, the agent is updated
\* with it.  rnd is the global random stream of the process that runs it.
RoundStep(ag, env, rnd) ==
    LET pulled == LinUCBPullArm(ag, None, rnd)
        env2   == EnvRound(env, Arm(pulled.ag.last_pull_i))
        reward == env2.rewards[Len(env2.rewards)]
    IN [agent |-> LinUCBUpdate(pulled.ag, reward), environment |-> env2, rnd |-> pulled.rnd]

\* args = [(deepcopy(self.agent), deepcopy(self.environment.reset(i)), n_rounds)
\*         for i in range(n_epochs)]
BuildArgs(ag, env, n_epochs) ==
    [k \in 1 .. n_epochs |-> [agent |-> ag, environment |-> EnvReset(env, k - 1)]]

\* return environment.rewards, agent.a_hist
EpochResult(arg) == [rewards |-> arg.environment.rewards, a_hist |-> arg.agent.a_hist]

\* Core(environment, agent) with a fresh LinUCBAgent and LinearEnvironment of
\* the same random_state; no call of simulation yet
CoreNew(rs, par, n) ==
    [environment |-> EnvNew(rs),
     agent       |-> LinUCBNew,
     parallel    |-> par,
     n_epochs    |-> n,
     call        |-> 1,
     phase       |-> "idle",
     args        |-> << >>,
     next        |-> 0,
     workers     |-> [w \in Workers |-> [np_random |-> NpSeed(rs), task |-> None]],
     done        |-> {},
     failed      |-> {},
     rewards     |-> << >>,
     a_hists     |-> << >>,
     result      |-> None,
     first       |-> << >>]

CoreInit ==
    /\ family = Idle
    /\ cenv = Idle
    /\ ret = Idle
    /\ \E rs \in Seeds, par \in BOOLEAN, n \in 1 .. MaxEpochs :
          /\ core = CoreNew(rs, par, n)
          /\ np_random = StreamAfterReset(EnvNew(rs), 0)
    /\ club = Idle
    /\ agent = Idle
    /\ product = Idle
    /\ pc = "idle"
    /\ fed = << >>

\* Core.simulation(n_epochs, n_rounds, parallel) is called: args are built,
\* which resets the shared environment n_epochs times and leaves the global
\* stream where the last reset left it; rewards = [] and a_hists = [].  The
\* pool's processes are forked after that and inherit the stream.
Core_simulation ==
    /\ core.phase = "idle"
    /\ LET last == core.n_epochs - 1
           rnd  == StreamAfterReset(core.environment, last)
       IN /\ core' = [core EXCEPT
                         !.args = BuildArgs(core.agent, core.environment, core.n_epochs),
                         !.environment = EnvReset(core.environment, last),
                         !.phase = "running",
                         !.next = 0,
                         !.done = {},
                         !.rewards = << >>,
                         !.a_hists = << >>,
                         !.result = None,
                         !.workers = [w \in Workers |-> [np_random |-> rnd, task |-> None]]]
          /\ np_random' = rnd
    /\ UNCHANGED <<club, agent, product, pc, fed, family, cenv, ret>>

\* sequential mode: one round of self.helper(arg) for the next arg, in the
\* calling process; when the epoch has run its rounds, helper returns and
\* its two histories are appended
Core_sequential_round ==
    /\ core.phase = "running"
    /\ ~core.parallel
    /\ core.next < core.n_epochs
    /\ LET k  == core.next + 1
           st == RoundStep(core.args[k].agent, core.args[k].environment, np_random)
           finished == st.environment.t = EpochRounds
           res == EpochResult(st)
       IN /\ core' = [core EXCEPT
                         !.args[k] = [agent |-> st.agent, environment |-> st.environment],
                         !.next = IF finished THEN @ + 1 ELSE @,
                         !.done = IF finished THEN @ \cup {k} ELSE @,
                         !.rewards = IF finished THEN Append(@, res.rewards) ELSE @,
                         !.a_hists = IF finished THEN Append(@, res.a_hist) ELSE @]
          /\ np_random' = st.rnd
    /\ UNCHANGED <<club, agent, product, pc, fed, family, cenv, ret>>

\* sequential mode: the running epoch raises an error; nothing in
\* simulation catches it, so the call ends with it
Core_sequential_raise ==
    /\ core.phase = "running"
    /\ ~core.parallel
    /\ core.next < core.n_epochs
    /\ core' = [core EXCEPT !.failed = @ \cup {core.next + 1}, !.phase = "raised"]
    /\ UNCHANGED <<club, agent, product, np_random, pc, fed, family, cenv, ret>>

\* worker pool: an idle worker process takes the next arg from the queue.
\* All n_epochs <= max_workers + 1 calls are queued at once, so none is
\* cancelled when the caller stops reading results.
Core_worker_take(w) ==
    /\ core.phase \in {"running", "unwinding"}
    /\ core.parallel
    /\ core.next < core.n_epochs
    /\ core.workers[w].task = None
    /\ core' = [core EXCEPT !.workers[w].task = core.next + 1, !.next = @ + 1]
    /\ UNCHANGED <<club, agent, product, np_random, pc, fed, family, cenv, ret>>

\* worker pool: one round of self.helper(arg) in worker process w, which
\* draws from the global stream of that process
Core_worker_round(w) ==
    /\ core.phase \in {"running", "unwinding"}
    /\ core.parallel
    /\ core.workers[w].task # None
    /\ LET k  == core.workers[w].task
           st == RoundStep(core.args[k].agent, core.args[k].environment,
                           core.workers[w].np_random)
           finished == st.environment.t = EpochRounds
       IN core' = [core EXCEPT
                      !.args[k] = [agent |-> st.agent, environment |-> st.environment],
                      !.workers[w] = [np_random |-> st.rnd,
                                      task |-> IF finished THEN None ELSE k],
                      !.done = IF finished THEN @ \cup {k} ELSE @]
    /\ UNCHANGED <<club, agent, product, np_random, pc, fed, family, cenv, ret>>

\* worker pool: the epoch that worker process w runs raises an error; the
\* error becomes the outcome of that epoch's future.  One epoch of a call
\* at most fails.
Core_worker_raise(w) ==
    /\ core.phase = "running"
    /\ core.parallel
    /\ core.workers[w].task # None
    /\ core.failed = {}
    /\ core' = [core EXCEPT !.failed = {core.workers[w].task},
                            !.workers[w].task = None]
    /\ UNCHANGED <<club, agent, product, np_random, pc, fed, family, cenv, ret>>

\* the epochs whose result the iterator of executor.map can hand out next
\* reversed: last submitted first
Collectable_Reversed(c) ==
    {k \in c.done \cup c.failed : k = c.n_epochs - Len(c.rewards)}

\* the epochs whose outcome the iterator of executor.map can hand out next:
\* the futures are read in the order of args
Collectable(c) ==
    {k \in c.done \cup c.failed : k = Len(c.rewards) + 1}

\* worker pool: the loop over executor.map(self.helper, args) in the calling
\* process gets the next result and appends its two histories
Core_collect ==
    /\ core.phase = "running"
    /\ core.parallel
    /\ \E k \in Collectable(core) \ core.failed :
          LET res == EpochResult(core.args[k])
          IN core' = [core EXCEPT !.rewards = Append(@, res.rewards),
                                  !.a_hists = Append(@, res.a_hist)]
    /\ UNCHANGED <<club, agent, product, np_random, pc, fed, family, cenv, ret>>

\* worker pool: the next outcome is the error of a failed epoch, which the
\* iterator re-raises in the calling process; the with block is left
Core_collect_raise ==
    /\ core.phase = "running"
    /\ core.parallel
    /\ Collectable(core) \cap core.failed # {}
    /\ core' = [core EXCEPT !.phase = "unwinding"]
    /\ UNCHANGED <<club, agent, product, np_random, pc, fed, family, cenv, ret>>

\* worker pool: leaving the with block waits for the queued and running
\* epochs (shutdown(wait=True)); then the error leaves simulation and the
\* local lists rewards and a_hists are dropped
Core_raise ==
    /\ core.phase = "unwinding"
    /\ core.next = core.n_epochs
    /\ \A w \in Workers : core.workers[w].task = None
    /\ core' = [core EXCEPT !.phase = "raised"]
    /\ UNCHANGED <<club, agent, product, np_random, pc, fed, family, cenv, ret>>

\* return np.array(rewards), np.array(a_hists); the caller keeps the result
\* of the first call and calls simulation again with the same arguments
Core_return ==
    /\ core.phase = "running"
    /\ IF core.parallel
       THEN Len(core.rewards) = core.n_epochs
       ELSE core.next = core.n_epochs
    /\ LET result == [rewards |-> core.rewards, a_hists |-> core.a_hists]
       IN core' = IF core.call = 1
                  THEN [core EXCEPT
                           !.first = [k \in 1 .. Len(core.rewards) |->
                                         [rewards |-> core.rewards[k],
                                          a_hist  |-> core.a_hists[k]]],
                           !.result = result,
                           !.call = 2,
                           !.phase = "idle"]
                  ELSE [core EXCEPT !.result = result, !.phase = "returned"]
    /\ UNCHANGED <<club, agent, product, np_random, pc, fed, family, cenv, ret>>

CoreNext ==
    \/ Core_simulation
    \/ Core_sequential_round
    \/ Core_sequential_raise
    \/ \E w \in Workers : Core_worker_take(w)
    \/ \E w \in Workers : Core_worker_round(w)
    \/ \E w \in Workers : Core_worker_raise(w)
    \/ Core_collect
    \/ Core_collect_raise
    \/ Core_raise
    \/ Core_return

SpecCore == CoreInit /\ [][CoreNext]_vars

-----------------------------------------------------------------------------
(* Properties of Core.simulation *)

RECURSIVE RunRounds(_, _)
\* Core.epoch run to its end on st = [agent, environment, rnd]
RunRounds(st, n) ==
    IF n = 0 THEN st
    ELSE RunRounds(RoundStep(st.agent, st.environment, st.rnd), n - 1)

\* the result of epoch k when it is the only epoch that runs after the args
\* of the call were built
AloneResult(k) ==
    LET arg == BuildArgs(core.agent, core.environment, core.n_epochs)[k]
        rnd == StreamAfterReset(core.environment, core.n_epochs - 1)
    IN EpochResult(RunRounds([agent |-> arg.agent, environment |-> arg.environment,
                              rnd |-> rnd], EpochRounds))

\* C3: the reward history and action history of epoch k are those of epoch
\* k run alone, in sequential mode and in the worker pool.
EpochIsolation ==
    core.phase = "running" =>
       \A k \in core.done : EpochResult(core.args[k]) = AloneResult(k)

\* C4: a second call of Core.simulation with the same arguments returns, for
\* every epoch, the histories the first call returned, whatever the
\* scheduling of epochs onto workers.
Reproducible ==
    (core.phase = "running" /\ core.call = 2) =>
       \A k \in core.done : EpochResult(core.args[k]) = core.first[k]

\* simulation has handed its result to the caller
Returned == core.phase = "returned" \/ (core.phase = "idle" /\ core.call = 2)

CallerHas(k) ==
    /\ Returned
    /\ k <= Len(core.result.rewards)
    /\ core.result.rewards[k] = core.args[k].environment.rewards
    /\ core.result.a_hists[k] = core.args[k].agent.a_hist

\* C14: in the worker pool, when the call has ended with the error of one
\* epoch, every other epoch has run to completion and the caller of
\* simulation has its histories.
IsolatedFailure ==
    (core.parallel /\ core.phase = "raised") =>
       \A k \in (1 .. core.n_epochs) \ core.failed :
          /\ k \in core.done
          /\ CallerHas(k)

-----------------------------------------------------------------------------
(* The whole model: one of the components runs *)

Init == CLUBInit \/ LinUCBInit \/ ProductInit \/ CoreInit \/ CtxEnvInit \/ FamilyInit

Next ==
    \/ (club # Idle /\ CLUBNext)
    \/ (agent # Idle /\ LinUCBNext)
    \/ (product # Idle /\ ProductNext)
    \/ (core # Idle /\ CoreNext)
    \/ (cenv # Idle /\ CtxEnvNext)
    \/ (family # Idle /\ FamilyNext)

Spec == Init /\ [][Next]_vars

====
